---- MODULE Spec2Model ----
(***************************************************************************)
(* Model of the MQTT telemetry driver mqtt_client_wrap                     *)
(* (src/azext_iot/operations/_mqtt.py).                                    *)
(*                                                                         *)
(* Two threads act on one driver instance:                                 *)
(*   - the control thread, running execute(data, publish_delay, msg_count) *)
(*   - the I/O thread of the MQTT client, started by loop_start(), which   *)
(*     delivers the on_connect / on_message / on_publish callbacks.        *)
(* The only state they share is the flag self.connected.                   *)
(***************************************************************************)
EXTENDS Integers, Sequences, FiniteSets, TLC

\* ---------------------------------------------------------------- bounds
MaxCount == 2
MaxStream == 2
MaxDelay == 1
MaxConnects == 2
MaxRc == 6
TickSeconds == 180
MaxTicks == 3
MaxTimeout == 2
MaxEnqueued == 1
MaxUtcSeconds == 1
NumPartitions == 2
MaxRecords == 2
MaxIdleSeconds == 2
MaxInterval == 2
MaxRuns == 2
MaxInvocations == 4

\* ---------------------------------------------------- program constants
\* validity window of the SAS token, in seconds: time() + 360
SasTtl == 360

\* ---------------------------------------------------------------- inputs
DeviceIds == {"dev1"}
Payloads == {"a", "b"}

RECURSIVE SeqsUpTo(_)
SeqsUpTo(n) ==
    IF n = 0 THEN {<<>>}
    ELSE LET shorter == SeqsUpTo(n - 1)
         IN  shorter \cup {Append(s, p) : s \in {t \in shorter : Len(t) = n - 1}, p \in Payloads}

Streams == SeqsUpTo(MaxStream)
ResultCodes == 0..MaxRc

\* ------------------------------------------------------- module constants
\* connection_result: the result-code table of the module
connection_result ==
    [c \in 0..5 |->
        CASE c = 0 -> "success"
          [] c = 1 -> "refused - incorrect protocol version"
          [] c = 2 -> "refused - invalid client id"
          [] c = 3 -> "refused - server unavailable"
          [] c = 4 -> "refused - bad username or password"
          [] c = 5 -> "refused - not authorized"]

\* 'devices/{}/messages/events/'.format(device_id)
topic_publish(d) == <<"devices", d, "messages", "events", "">>
\* 'devices/{}/messages/devicebound/#'.format(device_id)
topic_receive(d) == <<"devices", d, "messages", "devicebound", "#">>

VARIABLES
    device_id,      \* self.device_id
    data,           \* the caller's stream: the items data.generate(True) yields, in order
    publish_delay,  \* execute's publish_delay
    msg_count,      \* execute's msg_count
    connected,      \* self.connected
    loopRunning,    \* the client's I/O thread is alive (loop_start .. the join in loop_stop)
    terminate,      \* loop_stop has asked the I/O thread to end
    subscribed,     \* topics passed to self.client.subscribe, in call order
    rc,             \* rc of the most recent on_connect callback, -1 before the first
    iopc,           \* position of the I/O thread
    connects,       \* number of on_connect callbacks delivered
    out,            \* what the most recent callback printed with six.print_
    acked,          \* number of on_publish callbacks delivered
    pc,             \* position of the control thread in execute
    msgs,           \* execute's local counter msgs
    pos,            \* number of items pulled from data
    item,           \* the payload data.generate(True) returned for the pending publish
    pubCalls,       \* the (topic, payload) of every self.client.publish call, in call order
    exc,            \* the exception execute is propagating, "none" if none
    polled,         \* the loop has polled is_connected() at least once
    sleptPoll,      \* duration of the sleep since the last is_connected() poll, -1 if none
    sleptPub,       \* duration of the last sleep since the last publish call, -1 if none
    connectCalls,   \* number of self.client.connect calls the driver has made
    now,            \* time(), in seconds since the driver was constructed
    sas_expiry,     \* expiry of the SAS token set as the client's password, same clock
    handshakeAt,    \* time at which the most recent handshake presented that password
    central,        \* the invocation of iot_central_monitor_events (operations/central.py)
    worker          \* the invocation of execute_onthread (common/utility.py)

inputs == <<device_id, data, publish_delay, msg_count>>
iovars == <<connected, subscribed, rc, iopc, connects, out, acked>>
ctlvars == <<pc, msgs, pos, item, pubCalls, exc, polled, sleptPoll, sleptPub>>
\* what no step of the driver's two threads changes: the token, the number
\* of connect calls, the clock and the other two components
session == <<connectCalls, now, sas_expiry>>
others == <<central, worker>>
mqttvars == <<device_id, data, publish_delay, msg_count, connected, loopRunning, terminate,
              subscribed, rc, iopc, connects, out, acked,
              pc, msgs, pos, item, pubCalls, exc, polled, sleptPoll, sleptPub,
              connectCalls, now, sas_expiry, handshakeAt>>
vars == <<device_id, data, publish_delay, msg_count, connected, loopRunning, terminate,
          subscribed, rc, iopc, connects, out, acked,
          pc, msgs, pos, item, pubCalls, exc, polled, sleptPoll, sleptPub,
          connectCalls, now, sas_expiry, handshakeAt, central, worker>>

\* ------------------------------------------------------------ construction
\* State after mqtt_client_wrap(target, device_id): the token expires 360 s
\* after its issue, the flag is False, the callbacks are registered and
\* client.connect has sent the CONNECT packet; execute has not been entered.
MqttInit ==
    /\ connectCalls = 1
    /\ now = 0
    /\ sas_expiry = now + SasTtl
    /\ handshakeAt = now
    /\ device_id \in DeviceIds
    /\ data \in Streams
    /\ publish_delay \in 0..MaxDelay
    /\ msg_count \in 0..MaxCount
    /\ connected = FALSE
    /\ loopRunning = FALSE
    /\ terminate = FALSE
    /\ subscribed = <<>>
    /\ rc = -1
    /\ iopc = "idle"
    /\ connects = 0
    /\ out = <<"none">>
    /\ acked = 0
    /\ pc = "start"
    /\ msgs = 0
    /\ pos = 0
    /\ item = "none"
    /\ pubCalls = <<>>
    /\ exc = "none"
    /\ polled = FALSE
    /\ sleptPoll = -1
    /\ sleptPub = -1

\* is_connected()
is_connected == connected

\* ------------------------------------------------------------- I/O thread
\* The I/O thread dispatches callbacks one at a time for as long as it is
\* alive. loop_stop only sets a flag the thread tests between two rounds of
\* its loop, so a callback can still begin after loop_stop was called and
\* before the thread has seen the flag; the join then waits for it.
Dispatching == loopRunning /\ iopc = "idle"

\* The client's I/O thread receives a CONNACK with result code r and calls
\* on_connect(client, userdata, flags, r). The first CONNACK answers the
\* CONNECT sent by the constructor; a later one answers a reconnect the
\* client's loop has just made with the credentials set at line 43.
on_connect_call ==
    /\ Dispatching
    /\ connects < MaxConnects
    /\ \E r \in ResultCodes : rc' = r
    /\ connects' = connects + 1
    /\ handshakeAt' = IF connects = 0 THEN handshakeAt ELSE now
    /\ iopc' = "oc_print"
    /\ UNCHANGED <<inputs, others, session, connected, loopRunning, terminate, subscribed, out, acked, ctlvars>>

\* on_connect_print with the flag set first, before the subscription
on_connect_print_sets_flag ==
    /\ iopc = "oc_print"
    /\ IF rc \in DOMAIN connection_result
       THEN /\ out' = <<"Connected to target IoT Hub MQTT broker with result: ", connection_result[rc]>>
            /\ connected' = TRUE
            /\ iopc' = "oc_subscribe"
       ELSE /\ out' = out
            /\ connected' = connected
            /\ iopc' = "dead"
    /\ UNCHANGED <<inputs, others, session, handshakeAt, loopRunning, terminate, subscribed, rc, connects, acked, ctlvars>>

\* line 47: print the table's entry for rc; a code the table lacks raises
\* KeyError out of the callback, which ends the I/O thread.
on_connect_print ==
    /\ iopc = "oc_print"
    /\ IF rc \in DOMAIN connection_result
       THEN /\ out' = <<"Connected to target IoT Hub MQTT broker with result: ", connection_result[rc]>>
            /\ iopc' = "oc_subscribe"
       ELSE /\ out' = out
            /\ iopc' = "dead"
    /\ UNCHANGED <<inputs, others, session, handshakeAt, connected, loopRunning, terminate, subscribed, rc, connects, acked, ctlvars>>

\* lines 48-49: subscribe to the device-bound topic and report it
on_connect_subscribe ==
    /\ iopc = "oc_subscribe"
    /\ subscribed' = Append(subscribed, topic_receive(device_id))
    /\ out' = <<"Subscribed to device bound message queue">>
    /\ iopc' = "oc_set"
    /\ UNCHANGED <<inputs, others, session, handshakeAt, connected, loopRunning, terminate, rc, connects, acked, ctlvars>>

\* on_connect_set that answers a refused handshake with another connect
on_connect_set_retry ==
    /\ iopc = "oc_set"
    /\ connected' = TRUE
    /\ connectCalls' = IF rc = 0 THEN connectCalls ELSE connectCalls + 1
    /\ iopc' = "idle"
    /\ UNCHANGED <<inputs, others, now, sas_expiry, handshakeAt, loopRunning, terminate, subscribed, rc, connects, out, acked, ctlvars>>

\* line 50: self.connected = True
on_connect_set ==
    /\ iopc = "oc_set"
    /\ connected' = TRUE
    /\ iopc' = "idle"
    /\ UNCHANGED <<inputs, others, session, handshakeAt, loopRunning, terminate, subscribed, rc, connects, out, acked, ctlvars>>

\* on_message that takes the inbound message for the acknowledgement of an
\* outbound one
on_message_acks ==
    /\ Dispatching
    /\ rc = 0
    /\ subscribed # <<>>
    /\ \E p \in Payloads :
          out' = <<"_Received C2D message with topic_: ",
                   <<"devices", device_id, "messages", "devicebound", p>>,
                   "_Payload_: ", p>>
    /\ acked' = IF acked < Len(pubCalls) THEN acked + 1 ELSE acked
    /\ UNCHANGED <<inputs, others, session, handshakeAt, connected, loopRunning, terminate, subscribed, rc, iopc, connects, ctlvars>>

\* on_message(client, userdata, msg), lines 53-55: the broker forwards a
\* device-bound message of an accepted, subscribed session; its topic and
\* payload are printed and nothing is kept.
on_message ==
    /\ Dispatching
    /\ rc = 0
    /\ subscribed # <<>>
    /\ \E p \in Payloads :
          out' = <<"_Received C2D message with topic_: ",
                   <<"devices", device_id, "messages", "devicebound", p>>,
                   "_Payload_: ", p>>
    /\ UNCHANGED <<inputs, others, session, handshakeAt, connected, loopRunning, terminate, subscribed, rc, iopc, connects, acked, ctlvars>>

\* number of publish calls that returned normally
Sent == IF exc = "TransportError" THEN Len(pubCalls) - 1 ELSE Len(pubCalls)

\* on_publish(client, userdata, mid): a sent message has left the client
on_publish ==
    /\ Dispatching
    /\ acked < Sent
    /\ acked' = acked + 1
    /\ out' = <<".">>
    /\ UNCHANGED <<inputs, others, session, handshakeAt, connected, loopRunning, terminate, subscribed, rc, iopc, connects, ctlvars>>

\* --------------------------------------------------------- control thread
\* lines 64-66: enter the try block, msgs = 0, self.client.loop_start()
loop_start ==
    /\ pc = "start"
    /\ msgs' = 0
    /\ loopRunning' = TRUE
    /\ pc' = "check"
    /\ UNCHANGED <<inputs, others, session, handshakeAt, terminate, iovars, pos, item, pubCalls, exc, polled, sleptPoll, sleptPub>>

\* check with the bound tested as msgs <= msg_count
check_le ==
    /\ pc = "check"
    /\ polled' = TRUE
    /\ sleptPoll' = -1
    /\ IF is_connected
       THEN IF msgs <= msg_count
            THEN /\ msgs' = msgs + 1
                 /\ pc' = "generate"
            ELSE /\ msgs' = msgs
                 /\ pc' = "stop"
       ELSE /\ msgs' = msgs
            /\ pc' = "sleep"
    /\ UNCHANGED <<inputs, others, session, handshakeAt, loopRunning, terminate, iovars, pos, item, pubCalls, exc, sleptPub>>

\* check with the bound tested one message early
check_off_by_one ==
    /\ pc = "check"
    /\ polled' = TRUE
    /\ sleptPoll' = -1
    /\ IF is_connected
       THEN IF msgs + 1 < msg_count
            THEN /\ msgs' = msgs + 1
                 /\ pc' = "generate"
            ELSE /\ msgs' = msgs
                 /\ pc' = "stop"
       ELSE /\ msgs' = msgs
            /\ pc' = "sleep"
    /\ UNCHANGED <<inputs, others, session, handshakeAt, loopRunning, terminate, iovars, pos, item, pubCalls, exc, sleptPub>>

\* check with the sleep placed in the connected branch only: a disconnected
\* iteration goes straight back to the poll
check_busy_poll ==
    /\ pc = "check"
    /\ polled' = TRUE
    /\ sleptPoll' = -1
    /\ IF is_connected
       THEN IF msgs < msg_count
            THEN /\ msgs' = msgs + 1
                 /\ pc' = "generate"
            ELSE /\ msgs' = msgs
                 /\ pc' = "stop"
       ELSE /\ msgs' = msgs
            /\ pc' = "check"
    /\ UNCHANGED <<inputs, others, session, handshakeAt, loopRunning, terminate, iovars, pos, item, pubCalls, exc, sleptPub>>

\* check that leaves msgs += 1 out of the branch taken before the publish
check_no_increment ==
    /\ pc = "check"
    /\ polled' = TRUE
    /\ sleptPoll' = -1
    /\ IF is_connected
       THEN IF msgs < msg_count
            THEN /\ msgs' = msgs
                 /\ pc' = "generate"
            ELSE /\ msgs' = msgs
                 /\ pc' = "stop"
       ELSE /\ msgs' = msgs
            /\ pc' = "sleep"
    /\ UNCHANGED <<inputs, others, session, handshakeAt, loopRunning, terminate, iovars, pos, item, pubCalls, exc, sleptPub>>

\* lines 67-70, 72-73: one evaluation of the loop's conditions
check ==
    /\ pc = "check"
    /\ polled' = TRUE
    /\ sleptPoll' = -1
    /\ IF is_connected
       THEN IF msgs < msg_count
            THEN /\ msgs' = msgs + 1
                 /\ pc' = "generate"
            ELSE /\ msgs' = msgs
                 /\ pc' = "stop"
       ELSE /\ msgs' = msgs
            /\ pc' = "sleep"
    /\ UNCHANGED <<inputs, others, session, handshakeAt, loopRunning, terminate, iovars, pos, item, pubCalls, exc, sleptPub>>

\* generate handing out the current item without advancing the stream
generate_repeat ==
    /\ pc = "generate"
    /\ IF pos < Len(data)
       THEN /\ item' = data[pos + 1]
            /\ pos' = pos
            /\ exc' = exc
            /\ pc' = "publish"
       ELSE /\ item' = item
            /\ pos' = pos
            /\ exc' = "StreamExhausted"
            /\ pc' = "stop"
    /\ UNCHANGED <<inputs, others, session, handshakeAt, loopRunning, terminate, iovars, msgs, pubCalls, polled, sleptPoll, sleptPub>>

\* line 71, argument evaluation: data.generate(True) yields the next item
\* of the stream, or raises when the stream has no more items.
generate ==
    /\ pc = "generate"
    /\ IF pos < Len(data)
       THEN /\ item' = data[pos + 1]
            /\ pos' = pos + 1
            /\ exc' = exc
            /\ pc' = "publish"
       ELSE /\ item' = item
            /\ pos' = pos
            /\ exc' = "StreamExhausted"
            /\ pc' = "stop"
    /\ UNCHANGED <<inputs, others, session, handshakeAt, loopRunning, terminate, iovars, msgs, pubCalls, polled, sleptPoll, sleptPub>>

\* publish whose fault leaves execute without passing through the finally clause
publish_no_finally ==
    /\ pc = "publish"
    /\ pubCalls' = Append(pubCalls, <<topic_publish(device_id), item>>)
    /\ sleptPub' = -1
    /\ \/ /\ exc' = exc
          /\ pc' = "sleep"
       \/ /\ exc' = "TransportError"
          /\ pc' = "raised"
    /\ UNCHANGED <<inputs, others, session, handshakeAt, loopRunning, terminate, iovars, msgs, pos, item, polled, sleptPoll>>

\* publish whose fault is caught and the loop carried on
publish_swallow ==
    /\ pc = "publish"
    /\ pubCalls' = Append(pubCalls, <<topic_publish(device_id), item>>)
    /\ sleptPub' = -1
    /\ \/ /\ exc' = exc
          /\ pc' = "sleep"
       \/ /\ exc' = "TransportError"
          /\ pc' = "sleep"
    /\ UNCHANGED <<inputs, others, session, handshakeAt, loopRunning, terminate, iovars, msgs, pos, item, polled, sleptPoll>>

\* line 71: self.client.publish(self.topic_publish, item); the call either
\* returns or raises a transport fault.
publish ==
    /\ pc = "publish"
    /\ pubCalls' = Append(pubCalls, <<topic_publish(device_id), item>>)
    /\ sleptPub' = -1
    /\ \/ /\ exc' = exc
          /\ pc' = "sleep"
       \/ /\ exc' = "TransportError"
          /\ pc' = "stop"
    /\ UNCHANGED <<inputs, others, session, handshakeAt, loopRunning, terminate, iovars, msgs, pos, item, polled, sleptPoll>>

\* line 74: sleep(publish_delay)
sleep ==
    /\ pc = "sleep"
    /\ sleptPoll' = publish_delay
    /\ sleptPub' = publish_delay
    /\ pc' = "check"
    /\ UNCHANGED <<inputs, others, session, handshakeAt, loopRunning, terminate, iovars, msgs, pos, item, pubCalls, exc, polled>>

\* lines 77-78: finally, self.client.loop_stop() asks the I/O thread to end ...
loop_stop ==
    /\ pc = "stop"
    /\ terminate' = TRUE
    /\ pc' = "join"
    /\ UNCHANGED <<inputs, others, session, handshakeAt, loopRunning, iovars, msgs, pos, item, pubCalls, exc, polled, sleptPoll, sleptPub>>

\* loop_join that marks the driver disconnected once the loop is stopped
loop_join_resets ==
    /\ pc = "join"
    /\ iopc \in {"idle", "dead"}
    /\ loopRunning' = FALSE
    /\ connected' = FALSE
    /\ pc' = IF exc = "none" THEN "returned" ELSE "raised"
    /\ UNCHANGED <<inputs, others, session, handshakeAt, terminate, subscribed, rc, iopc, connects,
                   out, acked, msgs, pos, item, pubCalls, exc, polled, sleptPoll, sleptPub>>

\* ... and joins it: a callback in progress is completed first. Then execute
\* returns, or re-raises what the except clause caught (lines 75-76).
loop_join ==
    /\ pc = "join"
    /\ iopc \in {"idle", "dead"}
    /\ loopRunning' = FALSE
    /\ pc' = IF exc = "none" THEN "returned" ELSE "raised"
    /\ UNCHANGED <<inputs, others, session, handshakeAt, terminate, iovars, msgs, pos, item, pubCalls, exc, polled, sleptPoll, sleptPub>>

\* =========================================================================
\* iot_central_monitor_events (src/azext_iot/operations/central.py)
\* =========================================================================
\* An optional argument is <<>> for None and <<v>> for the value v.
None == <<>>
Some(v) == <<v>>
\* Python's `not x` for an optional integer: None and 0 are falsy
Falsy(x) == x = None \/ x[1] = 0
\* Python's `not x` for an optional list: None and [] are falsy
FalsyList(x) == x = None \/ x[1] = <<>>
\* Python's `not x` for an optional string: None and '' are falsy
FalsyStr(x) == x = None \/ x[1] = ""

PyVersions == {<<2, 7>>, <<3, 4>>, <<3, 5>>, <<3, 7>>, <<4, 0>>}
Timeouts == (0 - 1)..MaxTimeout
EnqueuedTimes == {None} \cup {Some(t) : t \in 0..MaxEnqueued}
MonitorDevices == {"devX", "devY"}
DeviceFilters == {None} \cup {Some(d) : d \in MonitorDevices}
Outputs == {None, Some(""), Some("table")}
PropertyLists == {None, Some(<<>>), Some(<<"sys">>)}
UtcSeconds == 1..MaxUtcSeconds
Partitions == 0..(NumPartitions - 1)

NoError == [kind |-> "none", msg |-> ""]

\* validate_min_python_version(major, minor) under interpreter `version`:
\* the value of `result`; a false result makes the function call sys.exit(msg)
validate_min_python_version(version, major, minor) ==
    IF version[1] > major THEN TRUE
    ELSE IF major = version[1] THEN version[2] >= minor
    ELSE FALSE

\* _calculate_millisec_since_unix_epoch_utc() when utcnow() is `seconds`
\* after the epoch
calculate_millisec_since_unix_epoch_utc(seconds) == 1000 * seconds

\* the component before iot_central_monitor_events is invoked
CentralOff ==
    [pc |-> "off", py |-> <<3, 5>>, utc |-> 1,
     arg_timeout |-> 0, arg_enqueued |-> None, arg_output |-> None,
     device_id |-> None, timeout |-> 0, enqueued_time |-> None, output |-> None,
     properties |-> None, error |-> NoError, ensured |-> 0, resolved |-> 0,
     calls |-> <<>>, status |-> "off", idle |-> 0, arrived |-> <<>>, yielded |-> <<>>]

\* iot_central_monitor_events(cmd, app_id, device_id, consumer_group, timeout,
\* repair_uamqp, enqueued_time, properties) has been called
CentralInputs ==
    {[CentralOff EXCEPT !.pc = "start", !.py = v, !.utc = u,
                        !.arg_timeout = t, !.timeout = t,
                        !.arg_enqueued = e, !.enqueued_time = e,
                        !.arg_output = o, !.output = o,
                        !.device_id = d, !.properties = pr] :
        v \in PyVersions, u \in UtcSeconds, t \in Timeouts, e \in EnqueuedTimes,
        o \in Outputs, d \in DeviceFilters, pr \in PropertyLists}

\* monitor_validate with the conversion to milliseconds shifted by one second
monitor_validate_shifted ==
    /\ central.pc = "start"
    /\ IF ~validate_min_python_version(central.py, 3, 5)
       THEN central' = [central EXCEPT
                !.pc = "exited",
                !.error = [kind |-> "SystemExit",
                           msg |-> "Python version 3.5 or higher required for this functionality."]]
       ELSE IF central.timeout < 0
       THEN central' = [central EXCEPT
                !.pc = "raised",
                !.error = [kind |-> "CLIError",
                           msg |-> "Monitoring timeout must be 0 (inf) or greater."]]
       ELSE central' = [central EXCEPT !.pc = "ensure", !.timeout = (central.timeout + 1) * 1000]
    /\ UNCHANGED <<mqttvars, worker>>

\* monitor_validate with the timeout tested after the dependency is ensured
monitor_validate_late ==
    /\ central.pc = "start"
    /\ IF ~validate_min_python_version(central.py, 3, 5)
       THEN central' = [central EXCEPT
                !.pc = "exited",
                !.error = [kind |-> "SystemExit",
                           msg |-> "Python version 3.5 or higher required for this functionality."]]
       ELSE IF central.timeout < 0
       THEN central' = [central EXCEPT
                !.pc = "raised", !.ensured = @ + 1,
                !.error = [kind |-> "CLIError",
                           msg |-> "Monitoring timeout must be 0 (inf) or greater."]]
       ELSE central' = [central EXCEPT !.pc = "ensure", !.timeout = central.timeout * 1000]
    /\ UNCHANGED <<mqttvars, worker>>

\* lines 11-15: the interpreter check, the timeout check and the conversion
\* of the timeout to milliseconds
monitor_validate ==
    /\ central.pc = "start"
    /\ IF ~validate_min_python_version(central.py, 3, 5)
       THEN central' = [central EXCEPT
                !.pc = "exited",
                !.error = [kind |-> "SystemExit",
                           msg |-> "Python version 3.5 or higher required for this functionality."]]
       ELSE IF central.timeout < 0
       THEN central' = [central EXCEPT
                !.pc = "raised",
                !.error = [kind |-> "CLIError",
                           msg |-> "Monitoring timeout must be 0 (inf) or greater."]]
       ELSE central' = [central EXCEPT !.pc = "ensure", !.timeout = central.timeout * 1000]
    /\ UNCHANGED <<mqttvars, worker>>

\* lines 17-21: a missing or empty output format becomes 'json'; ensure_uamqp
monitor_ensure ==
    /\ central.pc = "ensure"
    /\ central' = [central EXCEPT
            !.pc = "defaults",
            !.output = IF FalsyStr(central.output) THEN Some("json") ELSE central.output,
            !.ensured = @ + 1]
    /\ UNCHANGED <<mqttvars, worker>>

\* lines 23-34: properties defaults to [], enqueued_time to the current time
monitor_defaults ==
    /\ central.pc = "defaults"
    /\ central' = [central EXCEPT
            !.pc = "resolve",
            !.properties = IF FalsyList(central.properties) THEN Some(<<>>) ELSE central.properties,
            !.enqueued_time =
                IF Falsy(central.enqueued_time)
                THEN Some(calculate_millisec_since_unix_epoch_utc(central.utc))
                ELSE central.enqueued_time]
    /\ UNCHANGED <<mqttvars, worker>>

\* line 36: get_event_hub_target_from_central_app_id(cmd, app_id)
monitor_resolve ==
    /\ central.pc = "resolve"
    /\ central' = [central EXCEPT !.pc = "executor", !.resolved = @ + 1]
    /\ UNCHANGED <<mqttvars, worker>>

\* monitor_start passing no device filter to the consumer
monitor_start_unfiltered ==
    /\ central.pc = "executor"
    /\ central' = [central EXCEPT
            !.pc = "consuming",
            !.calls = Append(@, [enqueued_time |-> central.enqueued_time[1],
                                 timeout |-> central.timeout,
                                 device_id |-> None,
                                 properties |-> central.properties[1],
                                 output |-> central.output[1]]),
            !.status = "running",
            !.idle = 0]
    /\ UNCHANGED <<mqttvars, worker>>

\* lines 38-44: events3.executor(...) starts the event consumer
monitor_start ==
    /\ central.pc = "executor"
    /\ central' = [central EXCEPT
            !.pc = "consuming",
            !.calls = Append(@, [enqueued_time |-> central.enqueued_time[1],
                                 timeout |-> central.timeout,
                                 device_id |-> central.device_id,
                                 properties |-> central.properties[1],
                                 output |-> central.output[1]]),
            !.status = "running",
            !.idle = 0]
    /\ UNCHANGED <<mqttvars, worker>>

\* ------------------------------------------------------------------------
\* The event consumer started by events3.executor (spec 4.3): records of
\* all partitions are merged in arrival order, one inactivity timer runs
\* across all partitions, the device filter drops the records of other
\* devices. It works with the arguments of the executor call.
\* ------------------------------------------------------------------------
consumer_args == central.calls[Len(central.calls)]

\* a record of device d arrives on partition p
consumer_receive ==
    /\ central.pc = "consuming"
    /\ Len(central.arrived) < MaxRecords
    /\ \E p \in Partitions, d \in MonitorDevices :
          LET rec == [partition |-> p, device |-> d]
              pass == consumer_args.device_id = None \/ consumer_args.device_id[1] = d
          IN  central' = [central EXCEPT
                  !.idle = 0,
                  !.arrived = Append(@, rec),
                  !.yielded = IF pass THEN Append(@, rec) ELSE @]
    /\ UNCHANGED <<mqttvars, worker>>

\* one second passes without a record on any partition
consumer_idle ==
    /\ central.pc = "consuming"
    /\ IF consumer_args.timeout > 0
       THEN central.idle < consumer_args.timeout
       ELSE central.idle < 1000 * MaxIdleSeconds
    /\ central' = [central EXCEPT !.idle = @ + 1000]
    /\ UNCHANGED <<mqttvars, worker>>

\* the inactivity window has elapsed: graceful end of the sequence
consumer_timeout ==
    /\ central.pc = "consuming"
    /\ consumer_args.timeout > 0
    /\ central.idle >= consumer_args.timeout
    /\ central' = [central EXCEPT !.pc = "returned", !.status = "eos"]
    /\ UNCHANGED <<mqttvars, worker>>

\* the caller cancels the sequence
consumer_cancel ==
    /\ central.pc = "consuming"
    /\ central' = [central EXCEPT !.pc = "returned", !.status = "cancelled"]
    /\ UNCHANGED <<mqttvars, worker>>

\* =========================================================================
\* execute_onthread (src/azext_iot/common/utility.py)
\* =========================================================================
Intervals == {None} \cup {Some(i) : i \in 0..MaxInterval}
MaxRunsArgs == {None} \cup {Some(n) : n \in 0..MaxRuns}

\* the component before execute_onthread is invoked
WorkerOff ==
    [pc |-> "off", arg_interval |-> None, interval |-> 0, has_method |-> FALSE,
     max_runs |-> None, runs |-> 0, invoked |-> 0, cancelled |-> FALSE,
     waited |-> 0, last_wait |-> "none", invoked_after_set |-> 0, error |-> "none"]

\* execute_onthread(interval=..., method=..., max_runs=...) has been called
WorkerInputs ==
    {[WorkerOff EXCEPT !.pc = "call", !.arg_interval = i, !.has_method = m, !.max_runs = n] :
        i \in Intervals, m \in BOOLEAN, n \in MaxRunsArgs}

\* lines 195-225: the kwargs are read and defaulted, the thread is started
\* and the cancellation Event returned
execute_onthread ==
    /\ worker.pc = "call"
    /\ IF ~worker.has_method
       THEN worker' = [worker EXCEPT !.pc = "error", !.error = "kwarg \"method\" required for execution"]
       ELSE worker' = [worker EXCEPT
                !.pc = "wait",
                !.interval = IF Falsy(worker.arg_interval) THEN 2 ELSE worker.arg_interval[1]]
    /\ UNCHANGED <<mqttvars, central>>

\* method_wrap_wait that sleeps the interval without looking at the Event
method_wrap_wait_sleeps ==
    /\ worker.pc = "wait"
    /\ worker' = [worker EXCEPT !.pc = "check", !.waited = worker.interval, !.last_wait = "timeout"]
    /\ UNCHANGED <<mqttvars, central>>

\* line 211: runs = 0 on entry; line 212: cancellation_token.wait(interval)
\* returns True as soon as the Event is set, False after interval seconds.
\* waited is the time waited since the last invocation: a wait the Event
\* ends adds no full interval to it.
method_wrap_wait ==
    /\ worker.pc = "wait"
    /\ IF worker.cancelled
       THEN worker' = [worker EXCEPT !.pc = "exit", !.last_wait = "set"]
       ELSE worker' = [worker EXCEPT !.pc = "check", !.waited = worker.interval, !.last_wait = "timeout"]
    /\ UNCHANGED <<mqttvars, central>>

\* lines 213-215: the bound on the number of runs
method_wrap_check ==
    /\ worker.pc = "check"
    /\ IF ~Falsy(worker.max_runs) /\ worker.runs >= worker.max_runs[1]
       THEN worker' = [worker EXCEPT !.pc = "exit"]
       ELSE worker' = [worker EXCEPT !.pc = "invoke"]
    /\ UNCHANGED <<mqttvars, central>>

\* lines 216-217: method(*method_args); runs += 1
method_wrap_invoke ==
    /\ worker.pc = "invoke"
    /\ worker.invoked < MaxInvocations
    /\ worker' = [worker EXCEPT
            !.pc = "wait", !.invoked = @ + 1, !.runs = @ + 1, !.waited = 0,
            !.invoked_after_set = IF worker.cancelled THEN @ + 1 ELSE @]
    /\ UNCHANGED <<mqttvars, central>>

\* the caller sets the returned Event
cancellation_token_set ==
    /\ worker.pc \in {"wait", "check", "invoke"}
    /\ ~worker.cancelled
    /\ worker' = [worker EXCEPT !.cancelled = TRUE]
    /\ UNCHANGED <<mqttvars, central>>

\* =========================================================================
\* the clock of the driver's host
\* =========================================================================
\* TickSeconds pass
time_passes ==
    /\ now < TickSeconds * MaxTicks
    /\ now' = now + TickSeconds
    /\ UNCHANGED <<inputs, others, iovars, ctlvars, loopRunning, terminate,
                   connectCalls, sas_expiry, handshakeAt>>

IOThread ==
    \/ on_connect_call
    \/ on_connect_print
    \/ on_connect_subscribe
    \/ on_connect_set
    \/ on_message
    \/ on_publish

execute ==
    \/ loop_start
    \/ check
    \/ generate
    \/ publish
    \/ sleep
    \/ loop_stop
    \/ loop_join

\* The driver alone: the other two components are not invoked.
Init ==
    /\ MqttInit
    /\ central = CentralOff
    /\ worker = WorkerOff

Next == IOThread \/ execute

Spec == Init /\ [][Next]_vars

\* The driver while the host's clock advances.
TokenNext == Next \/ time_passes

TokenSpec == Init /\ [][TokenNext]_vars

\* A driver that is constructed and never run.
MqttUnused ==
    /\ MqttInit
    /\ data = <<>>
    /\ publish_delay = 0
    /\ msg_count = 0

\* One invocation of iot_central_monitor_events and its event consumer.
CentralInit ==
    /\ MqttUnused
    /\ central \in CentralInputs
    /\ worker = WorkerOff

CentralNext ==
    \/ monitor_validate
    \/ monitor_ensure
    \/ monitor_defaults
    \/ monitor_resolve
    \/ monitor_start
    \/ consumer_receive
    \/ consumer_idle
    \/ consumer_timeout
    \/ consumer_cancel

CentralSpec == CentralInit /\ [][CentralNext]_vars

\* One invocation of execute_onthread and its background thread.
ThreadInit ==
    /\ MqttUnused
    /\ central = CentralOff
    /\ worker \in WorkerInputs

ThreadNext ==
    \/ execute_onthread
    \/ method_wrap_wait
    \/ method_wrap_check
    \/ method_wrap_invoke
    \/ cancellation_token_set

ThreadSpec == ThreadInit /\ [][ThreadNext]_vars

\* Both threads are scheduled: the control thread's steps and sleeps end and
\* a callback that has been entered runs to its end. Nothing obliges the
\* broker to answer, so the arrival of a callback carries no fairness.
FairSpec ==
    /\ Spec
    /\ WF_vars(execute)
    /\ WF_vars(on_connect_print \/ on_connect_subscribe \/ on_connect_set)

TypeOK ==
    /\ connected \in BOOLEAN
    /\ loopRunning \in BOOLEAN
    /\ msgs \in 0..(MaxCount + 1)
    /\ pos \in 0..Len(data)
    /\ pc \in {"start", "check", "generate", "publish", "sleep", "stop", "join", "returned", "raised"}
    /\ iopc \in {"idle", "oc_print", "oc_subscribe", "oc_set", "dead"}
    /\ exc \in {"none", "StreamExhausted", "TransportError"}

\* ------------------------------------------------------------- properties
Ended == pc \in {"returned", "raised"}
Min(a, b) == IF a < b THEN a ELSE b

\* C1: a publish call is issued only while the connection is Connected, that
\* is after a handshake that succeeded (result code 0) and not during
\* shutdown; never while the handshake is pending or was refused.
C1_PublishOnlyWhileConnected ==
    [][Len(pubCalls') > Len(pubCalls) => (rc = 0 /\ loopRunning /\ ~terminate)]_vars

\* C2: only a handshake with result code 0 sets the connected flag and
\* subscribes; after a non-zero result code the flag stays false.
C2_ConnectedOnlyOnSuccess ==
    [][((~connected /\ connected') \/ subscribed' # subscribed) => rc = 0]_vars

\* C3: the loop counter msgs never exceeds msg_count.
C3_SentCountBounded == msgs <= msg_count

C3_Witness == pc = "returned" /\ msg_count > 0 /\ msgs = msg_count /\ Len(pubCalls) = msg_count

\* C4 (as stated): execute issues exactly min(msg_count, items of the
\* stream) publish calls and then terminates.
C4_ExactlyMinThenTerminates ==
    <>(Ended /\ Len(pubCalls) = Min(msg_count, Len(data)))

\* C4 (amended): once the connected flag is set execute terminates; when it
\* has terminated the flag is set and it has issued at most
\* min(msg_count, items of the stream) publish calls, exactly that many
\* unless a publish call raised.
C4_MinWhenTerminated ==
    /\ [](Ended => /\ connected
                   /\ Len(pubCalls) <= Min(msg_count, Len(data))
                   /\ (exc # "TransportError" => Len(pubCalls) = Min(msg_count, Len(data))))
    /\ (connected ~> Ended)

C4_Witness ==
    /\ Ended
    /\ exc = "StreamExhausted"
    /\ Len(data) > 0
    /\ Len(data) < msg_count
    /\ Len(pubCalls) = Len(data)

\* C5: the loop is left as soon as its test finds msgs = msg_count, whatever
\* the connection state is: no further iteration is run.
C5_LoopEndsAtMaxCount ==
    [][(pc = "check" /\ msgs = msg_count /\ pc' # pc) => pc' = "stop"]_vars

\* C6: execute never returns or raises with the I/O loop still started.
C6_ShutdownOnEveryExit == Ended => (terminate /\ ~loopRunning)

C6_Witness == pc = "raised" /\ exc = "TransportError" /\ ~loopRunning

\* C7: after shutdown is_connected() is false and the I/O thread is not
\* running.
C7_DisconnectedAfterShutdown == Ended => (~is_connected /\ ~loopRunning)

\* C8: after a publish call has raised, no publish call is issued and no
\* item is pulled; execute stops the I/O loop and raises the fault.
C8_FaultTerminatesRun ==
    /\ [][exc = "TransportError" =>
            /\ pubCalls' = pubCalls
            /\ pos' = pos
            /\ exc' = exc
            /\ pc' \in {"stop", "join", "raised"}]_vars
    /\ [](pc = "raised" /\ exc = "TransportError" => ~loopRunning)
    /\ (exc = "TransportError" ~> pc = "raised")

C8_Witness ==
    /\ pc = "raised"
    /\ exc = "TransportError"
    /\ Len(pubCalls) = 1
    /\ msg_count > 1
    /\ Len(data) > 1

\* C9: the loop never polls is_connected() twice, and never publishes
\* twice, without a sleep of publish_delay in between.
C9_SleepEveryIteration ==
    /\ (pc = "check" /\ polled) => sleptPoll = publish_delay
    /\ (pc = "publish" /\ pubCalls # <<>>) => sleptPub = publish_delay

C9_Witness ==
    /\ pc = "check"
    /\ polled
    /\ ~connected
    /\ publish_delay > 0
    /\ sleptPoll = publish_delay

\* C10: the publish calls carry the items of the stream in stream order,
\* one new item per call, to the device's event topic; when execute returns
\* it has published the first msg_count items.
C10_StreamOrder ==
    /\ Len(pubCalls) <= Len(data)
    /\ \A i \in 1..Len(pubCalls) : pubCalls[i] = <<topic_publish(device_id), data[i]>>
    /\ pc = "returned" => Len(pubCalls) = msg_count

C10_Witness ==
    /\ pc = "returned"
    /\ data = <<"a", "b">>
    /\ publish_delay = 0
    /\ msg_count = 2
    /\ pubCalls = <<<<topic_publish(device_id), "a">>, <<topic_publish(device_id), "b">>>>

\* C11: the driver calls client.connect once, at construction, and never
\* again, whatever the result of the handshake is.
C11_SingleConnect == connectCalls = 1

C11_Witness ==
    /\ pc = "returned"
    /\ rc \in 1..5
    /\ connected
    /\ connects = 1
    /\ connectCalls = 1

\* C12: whenever on_connect has classified its result code, it has reported
\* exactly the reason the result-code table gives for that code.
C12_ReasonFromTable ==
    [][(iopc = "oc_print" /\ iopc' # iopc) =>
          /\ iopc' = "oc_subscribe"
          /\ out' = <<"Connected to target IoT Hub MQTT broker with result: ",
                      CASE rc = 0 -> "success"
                        [] rc = 1 -> "refused - incorrect protocol version"
                        [] rc = 2 -> "refused - invalid client id"
                        [] rc = 3 -> "refused - server unavailable"
                        [] rc = 4 -> "refused - bad username or password"
                        [] rc = 5 -> "refused - not authorized"
                        [] OTHER -> "unclassified">>]_vars

\* C13: the connected flag is written only by the connect callback of a
\* successful handshake (result code 0) and by the shutdown path; no step of
\* the publish loop changes it, nor does the acknowledgement or the
\* inbound-message callback.
C13_ConnectedWriters ==
    [][/\ connected' # connected =>
            \/ iopc = "oc_set" /\ iopc' = "idle" /\ rc = 0
            \/ pc \in {"stop", "join"} /\ pc' # pc
       /\ (pc \in {"check", "generate", "publish", "sleep"} /\ pc' # pc) =>
            connected' = connected
       /\ (acked' # acked \/ (out' # out /\ out'[1] = "_Received C2D message with topic_: ")) =>
            connected' = connected]_vars

\* C14: a step that reports an inbound message changes nothing of the
\* driver but the text printed: not the connected flag, not msgs, not the
\* publish calls, not the stream position, not the acknowledgements.
C14_InboundObservational ==
    [][(out' # out /\ out'[1] = "_Received C2D message with topic_: ") =>
          /\ Len(out') = 4
          /\ UNCHANGED <<connected, loopRunning, terminate, subscribed, rc, iopc, connects, acked,
                         pc, msgs, pos, item, pubCalls, exc>>]_vars

C14_Witness ==
    /\ out[1] = "_Received C2D message with topic_: "
    /\ pc = "publish"
    /\ Len(pubCalls) = 1
    /\ acked = 1

\* C15: the token expires 360 s after its issue, is never changed, and no
\* handshake presents it after its expiry.
C15_NoHandshakeWithExpiredToken ==
    /\ sas_expiry = SasTtl
    /\ handshakeAt <= sas_expiry

\* C16 (as stated): a negative timeout is rejected with the timeout error
\* before anything is ensured, resolved or started; for every timeout >= 0
\* the consumer is started exactly once with the timeout in milliseconds.
C16_TimeoutChecked ==
    /\ (central.arg_timeout < 0 /\ central.pc \notin {"off", "start"}) =>
          /\ central.error = [kind |-> "CLIError", msg |-> "Monitoring timeout must be 0 (inf) or greater."]
          /\ central.ensured = 0
          /\ central.resolved = 0
          /\ central.calls = <<>>
    /\ (central.arg_timeout >= 0 /\ central.pc \in {"consuming", "returned", "raised", "exited"}) =>
          /\ Len(central.calls) = 1
          /\ central.calls[1].timeout = 1000 * central.arg_timeout

\* C16 (amended): the same on an interpreter of Python 3.5 or later; on an
\* older interpreter the handler exits with the version message and has
\* ensured, resolved and started nothing.
C16_TimeoutCheckedOnPy35 ==
    /\ Len(central.calls) <= 1
    /\ (validate_min_python_version(central.py, 3, 5) /\ central.arg_timeout < 0
            /\ central.pc \notin {"off", "start"}) =>
          /\ central.pc = "raised"
          /\ central.error = [kind |-> "CLIError", msg |-> "Monitoring timeout must be 0 (inf) or greater."]
          /\ central.ensured = 0
          /\ central.resolved = 0
          /\ central.calls = <<>>
    /\ (validate_min_python_version(central.py, 3, 5) /\ central.arg_timeout >= 0
            /\ central.pc \in {"consuming", "returned", "raised", "exited"}) =>
          /\ Len(central.calls) = 1
          /\ central.calls[1].timeout = 1000 * central.arg_timeout
          /\ central.ensured = 1
          /\ central.resolved = 1
    /\ (~validate_min_python_version(central.py, 3, 5) /\ central.pc \notin {"off", "start"}) =>
          /\ central.pc = "exited"
          /\ central.error.kind = "SystemExit"
          /\ central.ensured = 0
          /\ central.resolved = 0
          /\ central.calls = <<>>

C16_Witness ==
    /\ central.pc = "raised"
    /\ central.arg_timeout < 0
    /\ central.py = <<3, 7>>
    /\ central.error.kind = "CLIError"

\* C17: the consumer is started from the enqueued_time the caller gave,
\* whatever integer it is, and from the current time only if none was given.
C17_StartTimeAsGiven ==
    central.calls # <<>> =>
        central.calls[1].enqueued_time =
            IF central.arg_enqueued = None
            THEN calculate_millisec_since_unix_epoch_utc(central.utc)
            ELSE central.arg_enqueued[1]

\* C18: the sequence ends by timeout only when the caller's timeout is
\* positive and that many milliseconds have passed without a record on any
\* partition, and this end is not an error; with timeout 0 it never ends by
\* timeout and ends, cleanly, by cancellation only; every record resets the
\* inactivity window.
C18_InactivityTimeout ==
    /\ [](central.status = "eos" =>
            /\ central.arg_timeout > 0
            /\ central.idle >= 1000 * central.arg_timeout
            /\ central.error = NoError
            /\ central.pc = "returned")
    /\ []((central.arg_timeout = 0 /\ central.pc = "returned") =>
            /\ central.status = "cancelled"
            /\ central.error = NoError)
    /\ [][Len(central'.arrived) > Len(central.arrived) => central'.idle = 0]_vars

C18_Witness ==
    /\ central.status = "eos"
    /\ central.arg_timeout = 1
    /\ Len(central.arrived) = 2
    /\ central.arrived[1].partition # central.arrived[2].partition

\* C19: with a device filter the consumer yields exactly the arrived
\* records of that device, in arrival order; without one, every record.
C19_DeviceFilter ==
    central.pc \in {"consuming", "returned"} =>
        IF central.device_id = None
        THEN central.yielded = central.arrived
        ELSE central.yielded =
                SelectSeq(central.arrived, LAMBDA r : r.device = central.device_id[1])

C19_Witness ==
    /\ central.device_id = Some("devX")
    /\ Len(central.arrived) = 2
    /\ central.arrived[1].device = "devY"
    /\ central.arrived[2].device = "devX"
    /\ central.yielded = <<central.arrived[2]>>

\* C20: when max_runs is given, method is invoked at most max_runs times,
\* and a thread that ends without cancellation has invoked it exactly
\* max_runs times.
C20_MaxRunsBound ==
    worker.max_runs # None =>
        /\ worker.invoked <= worker.max_runs[1]
        /\ (worker.pc = "exit" /\ ~worker.cancelled) => worker.invoked = worker.max_runs[1]

\* C21: the subscription is issued before the connected flag is set, so the
\* flag is never true, and no publish call is ever issued, before a
\* subscribe call has been issued.
C21_SubscribeBeforeConnected ==
    /\ connected => subscribed # <<>>
    /\ pubCalls # <<>> => subscribed # <<>>
    /\ \A i \in 1..Len(subscribed) : subscribed[i] = topic_receive(device_id)

C21_Witness ==
    /\ iopc = "oc_set"
    /\ ~connected
    /\ Len(subscribed) = 1
    /\ pc = "sleep"
    /\ pubCalls = <<>>

\* C22: the connected flag starts false and, once true, stays true: through
\* a later refused handshake, through shutdown, and while the loop goes on
\* publishing.
C22_ConnectedMonotonic ==
    /\ [](pc = "start" => ~connected)
    /\ [][connected => connected']_vars
    /\ [][(connected /\ ~loopRunning') => is_connected']_vars

C22_Witness ==
    /\ pc = "returned"
    /\ ~loopRunning
    /\ is_connected
    /\ connects = 2
    /\ rc = 5
    /\ Len(pubCalls) = 2

\* C23: msgs is incremented before the item is pulled and published:
\* publish calls issued <= msgs <= publish calls issued + 1; when the k-th
\* pull raises, msgs = k with k - 1 publish calls issued; when the k-th
\* publish call raises, msgs = k with k - 1 messages published.
C23_CounterLeadsPublish ==
    /\ Len(pubCalls) <= msgs
    /\ msgs <= Len(pubCalls) + 1
    /\ pc \in {"generate", "publish"} => msgs = Len(pubCalls) + 1
    /\ exc = "StreamExhausted" => (msgs = Len(pubCalls) + 1 /\ Sent = msgs - 1)
    /\ exc = "TransportError" => (msgs = Len(pubCalls) /\ Sent = msgs - 1)
    /\ pc = "returned" => (msgs = Len(pubCalls) /\ Sent = msgs)

C23_Witness ==
    /\ pc = "raised"
    /\ exc = "StreamExhausted"
    /\ msgs = 2
    /\ Len(pubCalls) = 1

\* C24: every invocation of method follows a full wait of the interval (2
\* when the interval is missing or zero); once a wait has seen the Event set
\* the thread has ended without waiting out the interval and invokes nothing
\* more; at most one invocation runs after the Event is set.
C24_WaitThenInvoke ==
    /\ worker.pc \in {"wait", "check", "invoke", "exit"} =>
          worker.interval = IF Falsy(worker.arg_interval) THEN 2 ELSE worker.arg_interval[1]
    /\ worker.pc = "invoke" => (worker.waited = worker.interval /\ worker.last_wait = "timeout")
    /\ worker.last_wait = "set" => (worker.pc = "exit" /\ worker.waited = 0)
    /\ worker.invoked_after_set <= 1
    /\ worker.invoked_after_set = 1 => worker.cancelled

C24_Witness ==
    /\ worker.pc = "exit"
    /\ worker.cancelled
    /\ worker.last_wait = "set"
    /\ worker.invoked_after_set = 1
    /\ worker.invoked = 2
    /\ worker.arg_interval = Some(0)
    /\ worker.interval = 2

====
